---- MODULE Spec2Model ----
(***************************************************************************)
(* A model of the AgentFlow framework's state machines:                    *)
(*   - the workflow scheduler of framework/orchestration/base.py           *)
(*     (DAGOrchestrator.execute), checked under SpecDAG;                   *)
(*   - the sequential pipeline of the same file                            *)
(*     (SequentialOrchestrator.execute), checked under SpecSeq;            *)
(*   - the agent decision loop of framework/agents/base.py                 *)
(*     (BaseAgent, ReActAgent, FunctionCallingAgent, ConversationalAgent,  *)
(*     PlannerAgent) over the history of framework/memory/base.py,         *)
(*     checked under SpecAgent.                                            *)
(* Python values are tuples whose first element is a tag, so that any two  *)
(* values can be compared: <<"none">>, <<"str", s>>, <<"strof", v>>        *)
(* (str(v) of a non-string v), <<"dict", entries>> and                     *)
(* <<"msg", role, content>> (a dict with the keys role and content).       *)
(***************************************************************************)
EXTENDS Integers, Sequences, FiniteSets, TLC

\* ------------------------------------------------------------------------
\* Bounds of the model
\* ------------------------------------------------------------------------

\* the largest max_steps a workflow configuration is given
MaxStepsBound == 3

\* the longest dependency list a node declares
MaxDeps == 2

\* the largest max_iterations an agent configuration is given
MaxIterBound == 2

\* the most tool-call requests one completion carries
MaxCalls == 2

\* the number of run calls made on one agent
MaxRuns == 2

\* the number of reset calls made on one agent
MaxResets == 1

\* the provider requests tools only while the requests and their answers
\* keep the history within this length
MaxHistory == 6

\* the longest agent-id list a sequential workflow is given
MaxSeqLen == 3

\* ------------------------------------------------------------------------
\* Python values
\* ------------------------------------------------------------------------

None == <<"none">>

StrV(s) == <<"str", s>>

\* str(v) for a value that is not a string
StrOf(v) == <<"strof", v>>

\* a dict, as the sequence of its <<key, value>> items in insertion order
DictV(entries) == <<"dict", entries>>

\* the dict {"role": role, "content": content}
MsgV(role, content) == <<"msg", role, content>>

IsStr(v) == v[1] \in {"str", "strof"}

IsDict(v) == v[1] \in {"dict", "msg"}

\* key in d, for a dict d
HasKey(d, k) ==
    IF d[1] = "msg" THEN k \in {"role", "content"}
    ELSE \E i \in 1..Len(d[2]) : d[2][i][1] = k

\* d[key], for a dict d that has the key
GetKey(d, k) ==
    IF d[1] = "msg"
    THEN (IF k = "role" THEN StrV(d[2]) ELSE d[3])
    ELSE LET i == CHOOSE j \in 1..Len(d[2]) : d[2][j][1] = k IN d[2][i][2]

\* d[key] = value, for the dict under construction d
PutKey(d, k, v) ==
    IF \E i \in 1..Len(d[2]) : d[2][i][1] = k
    THEN DictV([i \in 1..Len(d[2]) |->
                  IF d[2][i][1] = k THEN <<k, v>> ELSE d[2][i]])
    ELSE DictV(Append(d[2], <<k, v>>))

\* ------------------------------------------------------------------------
\* The workflow scheduler: BaseOrchestrator and DAGOrchestrator
\* ------------------------------------------------------------------------

\* node and agent ids
Ids == {"A", "B", "C"}

\* the value of a workflow key that is absent
NoNode == "-"

\* BaseOrchestrator._format_input
FormatInput(v) ==
    IF v[1] = "msg" THEN v
    ELSE MsgV("user", IF v[1] = "str" THEN v ELSE StrOf(v))

VARIABLES
    wfOrder,      \* workflow["dag"]: the node ids in the order dag.items() yields them
    wfDeps,       \* node id -> its "dependencies" list
    wfMap,        \* node id -> its "input_mapping", a sequence of <<key, ref>> (<<>>: none)
    entryPoint,   \* workflow["entry_point"], or NoNode
    finalNode,    \* workflow["final_node"], or NoNode
    maxSteps,     \* config.max_steps
    agentIds,     \* the keys of self._agents
    inputData,    \* execute's input_data
    outVals,      \* the values the stub agents may return
    results,      \* results: node id -> output
    processed,    \* processed_nodes
    steps,        \* steps
    scan,         \* position of the for loop in wfOrder (0: outside the loop)
    dpc,          \* where execute is: start, while, for, final, returned, raised
    dret,         \* the value execute returned
    derr,         \* the error execute raised
    ran,          \* node id -> the number of times its agent was run
    ranInput      \* node id -> the input its agent was last run on

dagVars == <<wfOrder, wfDeps, wfMap, entryPoint, finalNode, maxSteps, agentIds,
             inputData, outVals, results, processed, steps, scan, dpc, dret,
             derr, ran, ranInput>>

dagConfig == <<wfOrder, wfDeps, wfMap, entryPoint, finalNode, maxSteps,
               agentIds, inputData, outVals>>

VARIABLES
    aKind,        \* the agent's class: react, function_calling, conversational, planner
    maxIter,      \* config.max_iterations
    cfgTools,     \* config.tools: the tool names the definition allows
    providerOk,   \* whether config.provider is registered in ProviderRegistry
    history,      \* self._memory._items
    stIter,       \* self._state["iterations"]
    apc,          \* where run is: idle, loop, tools, oneshot, done
    messages,     \* run's local messages
    iterations,   \* run's local iterations
    tools,        \* run's local tools: the names of the active tool set
    toolCalls,    \* run's local tool_calls
    callIdx,      \* position of the for loop in tool_calls
    aret,         \* what run returned
    araised,      \* the exception run ended with ("none": it returned)
    nextCallId,   \* the provider's next tool-call id
    nRuns,        \* run calls made so far
    nResets,      \* reset calls made so far
    completions,  \* provider.complete calls issued in the current run
    toolCompletions, \* those of them that returned tool-call requests
    invoked,      \* ids of the calls whose capability was invoked, this iteration
    lastOutcome,  \* how the tool call of the last step ended ("none": no tool call)
    freshHistory, \* the history of a twin built by __init__ at the agent's last
                  \* reset and given the same runs, responses and tool results
    lookedUp,     \* the names the current run passed to ToolRegistry.get
    toolsArg      \* the tools argument the current run was called with

agentConfig == <<aKind, maxIter, cfgTools, providerOk>>

agentLocals == <<messages, iterations, tools, toolCalls, callIdx>>

agentGhosts == <<nextCallId, nRuns, nResets, completions, toolCompletions,
                 invoked, lastOutcome, freshHistory, lookedUp,
                 toolsArg>>

agentVars == <<agentConfig, history, stIter, apc, agentLocals, aret, araised,
               agentGhosts>>

VARIABLES
    seqWorkflow,  \* the sequential workflow: <<"absent">> (no "sequence" key) or
                  \* <<"seq", ids>>
    seqAgents,    \* the keys of the sequential orchestrator's self._agents
    seqKind,      \* agent id -> what its stub returns
    seqInput,     \* execute's input_data
    seqCur,       \* current_input
    seqPos,       \* position of the for loop in agent_sequence (0: outside)
    spc,          \* where execute is: start, loop, returned, raised
    sret,         \* the value execute returned
    serr,         \* the error execute raised
    seqLog        \* the runs made: <<agent id, input handed over, output>>

seqConfig == <<seqWorkflow, seqAgents, seqKind, seqInput>>

seqVars == <<seqConfig, seqCur, seqPos, spc, sret, serr, seqLog>>

vars == <<dagVars, agentVars, seqVars>>

Range(s) == {s[i] : i \in 1..Len(s)}

\* the sequences of distinct elements of S that are at most n long
DistinctSeqs(S, n) ==
    {s \in UNION {[1..k -> S] : k \in 0..n} :
        \A i, j \in 1..Len(s) : i # j => s[i] # s[j]}

\* An input_mapping value ("A" or "A.value") is the sequence of its tokens,
\* <<"A">> or <<"A", ".", "value">>: the scheduler splits it at its first ".".
HasDot(ref) == "." \in Range(ref)

FirstDot(ref) == CHOOSE i \in 1..Len(ref) :
                    ref[i] = "." /\ \A j \in 1..(i - 1) : ref[j] # "."

\* the string a token sequence spells: one token is itself, several tokens
\* spell a string that is no node id and no key of a stub's output
Join(tokens) == IF Len(tokens) = 1 THEN tokens[1] ELSE "<compound>"

\* mapping.split(".", 1)[0]
SplitNode(ref) == Join(SubSeq(ref, 1, FirstDot(ref) - 1))

\* mapping.split(".", 1)[1]
SplitKey(ref) == Join(SubSeq(ref, FirstDot(ref) + 1, Len(ref)))

\* a dependency test that looks at the first dependency only
FirstDepSatisfied(n, res) == wfDeps[n] = <<>> \/ wfDeps[n][1] \in DOMAIN res

\* all(dep in results for dep in dependencies)
DepsSatisfied(n, res) == \A i \in 1..Len(wfDeps[n]) : wfDeps[n][i] \in DOMAIN res

\* the loop over agent_input.items() that builds mapped_input
RECURSIVE MapInputs(_, _, _)
MapInputs(mapping, res, acc) ==
    IF mapping = <<>> THEN acc
    ELSE LET key == mapping[1][1]
             ref == mapping[1][2]
             src == IF HasDot(ref) THEN SplitNode(ref) ELSE Join(ref)
             val == IF HasDot(ref)
                    THEN (IF IsDict(res[src]) /\ HasKey(res[src], SplitKey(ref))
                          THEN GetKey(res[src], SplitKey(ref))
                          ELSE res[src])
                    ELSE res[src]
         IN MapInputs(Tail(mapping), res,
                      IF src \in DOMAIN res THEN PutKey(acc, key, val) ELSE acc)

\* the input a node's agent is run on: formatted_input
NodeInput(n, res) ==
    IF wfMap[n] # <<>>
    THEN FormatInput(MapInputs(wfMap[n], res, DictV(<<>>)))
    ELSE FormatInput(IF wfDeps[n] # <<>> THEN res[wfDeps[n][1]] ELSE inputData)

\* execute up to the while loop: the workflow's dag and entry point are
\* checked, results is seeded with the formatted input
DagStart ==
    /\ dpc = "start"
    /\ IF wfOrder = <<>>
       THEN /\ dpc' = "raised"
            /\ derr' = "no_dag"
            /\ UNCHANGED results
       ELSE IF entryPoint = NoNode
       THEN /\ dpc' = "raised"
            /\ derr' = "no_entry_point"
            /\ UNCHANGED results
       ELSE /\ dpc' = "while"
            /\ results' = (entryPoint :> FormatInput(inputData))
            /\ UNCHANGED derr
    /\ UNCHANGED <<agentVars, seqVars, dagConfig, processed, steps, scan, dret, ran, ranInput>>

\* a while test that stops one round early
DagWhileOneRoundLess ==
    /\ dpc = "while"
    /\ IF steps + 1 < maxSteps /\ Cardinality(processed) < Len(wfOrder)
       THEN /\ steps' = steps + 1
            /\ scan' = 1
            /\ dpc' = "for"
       ELSE /\ dpc' = "final"
            /\ UNCHANGED <<steps, scan>>
    /\ UNCHANGED <<agentVars, seqVars, dagConfig, results, processed, dret, derr,
                   ran, ranInput>>

\* a while test that allows one round past the budget
DagWhileOneRoundMore ==
    /\ dpc = "while"
    /\ IF steps <= maxSteps /\ Cardinality(processed) < Len(wfOrder)
       THEN /\ steps' = steps + 1
            /\ scan' = 1
            /\ dpc' = "for"
       ELSE /\ dpc' = "final"
            /\ UNCHANGED <<steps, scan>>
    /\ UNCHANGED <<agentVars, seqVars, dagConfig, results, processed, dret, derr, ran, ranInput>>

\* while steps < max_steps and len(processed_nodes) < len(dag): steps += 1
DagWhile ==
    /\ dpc = "while"
    /\ IF steps < maxSteps /\ Cardinality(processed) < Len(wfOrder)
       THEN /\ steps' = steps + 1
            /\ scan' = 1
            /\ dpc' = "for"
       ELSE /\ dpc' = "final"
            /\ UNCHANGED <<steps, scan>>
    /\ UNCHANGED <<agentVars, seqVars, dagConfig, results, processed, dret, derr, ran, ranInput>>

\* the for loop is over: back to the while test
DagEndRound ==
    /\ dpc = "for"
    /\ scan > Len(wfOrder)
    /\ dpc' = "while"
    /\ scan' = 0
    /\ UNCHANGED <<agentVars, seqVars, dagConfig, results, processed, steps, dret, derr, ran, ranInput>>

\* a skip test that forgets processed_nodes
SkippedOnDepsOnly(n) == ~DepsSatisfied(n, results)

\* the node the for loop is at is skipped
NodeSkipped(n) == n \in processed \/ ~DepsSatisfied(n, results)

\* one turn of the for loop on a node that is processed already or whose
\* dependencies are not all in results
DagSkip ==
    /\ dpc = "for"
    /\ scan <= Len(wfOrder)
    /\ NodeSkipped(wfOrder[scan])
    /\ scan' = scan + 1
    /\ UNCHANGED <<agentVars, seqVars, dagConfig, results, processed, steps, dpc, dret, derr, ran, ranInput>>

\* a scheduler that passes over an eligible node that has no agent
DagNoAgentSkips ==
    /\ dpc = "for"
    /\ scan <= Len(wfOrder)
    /\ wfOrder[scan] \notin processed
    /\ \A i \in 1..Len(wfDeps[wfOrder[scan]]) : wfDeps[wfOrder[scan]][i] \in DOMAIN results
    /\ wfOrder[scan] \notin agentIds
    /\ scan' = scan + 1
    /\ UNCHANGED <<agentVars, seqVars, dagConfig, results, processed, steps, dpc,
                   dret, derr, ran, ranInput>>

\* an eligible node that has no agent: execute raises
DagNoAgent ==
    /\ dpc = "for"
    /\ scan <= Len(wfOrder)
    /\ ~NodeSkipped(wfOrder[scan])
    /\ wfOrder[scan] \notin agentIds
    /\ dpc' = "raised"
    /\ derr' = "agent_not_found"
    /\ UNCHANGED <<agentVars, seqVars, dagConfig, results, processed, steps, scan, dret, ran, ranInput>>

\* a store that does not mark the node as processed
StoreWithoutMark(n, out) ==
    /\ results' = [m \in DOMAIN results \cup {n} |-> IF m = n THEN out ELSE results[m]]
    /\ processed' = processed

\* a store that starts results afresh with the node's result
StoreOnlyResult(n, out) ==
    /\ results' = (n :> out)
    /\ processed' = processed \cup {n}

\* what running a node writes: results[node_id] = result, processed_nodes.add
StoreResult(n, out) ==
    /\ results' = [m \in DOMAIN results \cup {n} |-> IF m = n THEN out ELSE results[m]]
    /\ processed' = processed \cup {n}

\* an eligible node's agent is run on its input and returns a value
DagRunNode ==
    /\ dpc = "for"
    /\ scan <= Len(wfOrder)
    /\ ~NodeSkipped(wfOrder[scan])
    /\ wfOrder[scan] \in agentIds
    /\ LET n == wfOrder[scan] IN
         /\ ranInput' = [ranInput EXCEPT ![n] = NodeInput(n, results)]
         /\ ran' = [ran EXCEPT ![n] = @ + 1]
         /\ \E out \in outVals : StoreResult(n, out)
    /\ scan' = scan + 1
    /\ UNCHANGED <<agentVars, seqVars, dagConfig, steps, dpc, dret, derr>>

\* an eligible node's agent is run and raises: execute raises with it
DagRunRaises ==
    /\ dpc = "for"
    /\ scan <= Len(wfOrder)
    /\ ~NodeSkipped(wfOrder[scan])
    /\ wfOrder[scan] \in agentIds
    /\ LET n == wfOrder[scan] IN
         /\ ranInput' = [ranInput EXCEPT ![n] = NodeInput(n, results)]
         /\ ran' = [ran EXCEPT ![n] = @ + 1]
    /\ dpc' = "raised"
    /\ derr' = "agent_raised"
    /\ UNCHANGED <<agentVars, seqVars, dagConfig, results, processed, steps, scan, dret>>

\* an end of execute that returns the entry point's value
DagFinalReturnsEntry ==
    /\ dpc = "final"
    /\ dpc' = "returned"
    /\ dret' = results[entryPoint]
    /\ UNCHANGED <<agentVars, seqVars, dagConfig, results, processed, steps, scan,
                   derr, ran, ranInput>>

\* after the loop: the final node is looked up and its result returned
DagFinal ==
    /\ dpc = "final"
    /\ IF finalNode = NoNode
       THEN /\ dpc' = "raised"
            /\ derr' = "no_final_node"
            /\ UNCHANGED dret
       ELSE IF finalNode \notin DOMAIN results
       THEN /\ dpc' = "raised"
            /\ derr' = "final_not_processed"
            /\ UNCHANGED dret
       ELSE /\ dpc' = "returned"
            /\ dret' = results[finalNode]
            /\ UNCHANGED derr
    /\ UNCHANGED <<agentVars, seqVars, dagConfig, results, processed, steps, scan, ran, ranInput>>

\* The same execute as a function of the scan order, for stubs that return
\* and whose output is fixed: what execute ends with when dag.items() yields
\* the nodes in the given order.

\* the output of a node's fixed stub on an input
StubResult(n, in) == CHOOSE out \in outVals : TRUE

\* the for loop from position i on: <<"ok", results, processed_nodes>> at its
\* end, <<"raised", error>> when an eligible node has no agent
RECURSIVE ScanFrom(_, _, _, _)
ScanFrom(order, i, res, proc) ==
    IF i > Len(order) THEN <<"ok", res, proc>>
    ELSE LET n == order[i] IN
         IF n \in proc \/ ~DepsSatisfied(n, res)
         THEN ScanFrom(order, i + 1, res, proc)
         ELSE IF n \notin agentIds THEN <<"raised", "agent_not_found">>
         ELSE ScanFrom(order, i + 1,
                       [m \in DOMAIN res \cup {n} |->
                          IF m = n THEN StubResult(n, NodeInput(n, res)) ELSE res[m]],
                       proc \cup {n})

\* the while loop from the round counter st on
RECURSIVE RoundsFrom(_, _, _, _)
RoundsFrom(order, st, res, proc) ==
    IF st < maxSteps /\ Cardinality(proc) < Len(order)
    THEN LET r == ScanFrom(order, 1, res, proc) IN
         IF r[1] = "raised" THEN r ELSE RoundsFrom(order, st + 1, r[2], r[3])
    ELSE <<"ok", res, proc>>

\* what execute ends with: <<"returned", value>> or <<"raised", error>>
ExecuteOutcome(order) ==
    IF order = <<>> THEN <<"raised", "no_dag">>
    ELSE IF entryPoint = NoNode THEN <<"raised", "no_entry_point">>
    ELSE LET r == RoundsFrom(order, 0, (entryPoint :> FormatInput(inputData)), {}) IN
         IF r[1] = "raised" THEN r
         ELSE IF finalNode = NoNode THEN <<"raised", "no_final_node">>
         ELSE IF finalNode \notin DOMAIN r[2] THEN <<"raised", "final_not_processed">>
         ELSE <<"returned", r[2][finalNode]>>

\* the orders in which the node map may be scanned
ScanOrders == {o \in DistinctSeqs(Range(wfOrder), Len(wfOrder)) : Len(o) = Len(wfOrder)}

DagNext ==
    \/ DagStart
    \/ DagWhile
    \/ DagSkip
    \/ DagNoAgent
    \/ DagRunNode
    \/ DagRunRaises
    \/ DagEndRound
    \/ DagFinal

\* the dependency lists a node may declare
DepLists == DistinctSeqs(Ids, MaxDeps)

\* the state of an execute that has not started
DagFresh ==
    /\ results = <<>>
    /\ processed = {}
    /\ steps = 0
    /\ scan = 0
    /\ dpc = "start"
    /\ dret = None
    /\ derr = "none"
    /\ ran = [n \in Ids |-> 0]
    /\ ranInput = [n \in Ids |-> None]

\* Workflows whose nodes all have agents.  Node ids are interchangeable, so
\* the scan order is A, B, C and the dependency lists range over every id
\* sequence: any node map and scan order is a renaming of one of these.
InitWellFormed ==
    /\ wfOrder \in {<<"A">>, <<"A", "B">>, <<"A", "B", "C">>}
    /\ wfDeps \in [Ids -> DepLists]
    /\ \A n \in Ids \ Range(wfOrder) : wfDeps[n] = <<>>
    /\ wfMap = [n \in Ids |-> <<>>]
    /\ entryPoint \in Ids
    /\ finalNode \in Ids
    /\ maxSteps \in 0..MaxStepsBound
    /\ agentIds = Ids
    /\ inputData = StrV("start")
    /\ outVals = {StrV("out")}

\* Workflows that lack a part or an agent, over node maps of up to two nodes
\* in either scan order.
InitMalformed ==
    /\ wfOrder \in DistinctSeqs(Ids, 2)
    /\ wfDeps \in [Ids -> DistinctSeqs(Ids, 1)]
    /\ \A n \in Ids \ Range(wfOrder) : wfDeps[n] = <<>>
    /\ wfMap = [n \in Ids |-> <<>>]
    /\ entryPoint \in Ids \cup {NoNode}
    /\ finalNode \in Ids \cup {NoNode}
    /\ maxSteps \in 1..2
    /\ agentIds \in SUBSET Ids
    /\ inputData = StrV("start")
    /\ outVals = {StrV("out")}

\* the number 7
Seven == <<"int", 7>>

\* a structured output: the dict {"value": 7}
ValueDict == DictV(<<<<"value", Seven>>>>)

\* the producer refs of an input mapping: a field the output has, a field it
\* lacks, the bare node id, and a node that is not in the node map
ProducerRefs == {<<"A", ".", "value">>, <<"A", ".", "other">>, <<"A">>,
                 <<"C", ".", "value">>}

\* Workflows with an input mapping: entry point A, node B depends on A and
\* maps one key; the node map is written in either order, and the stubs
\* return a dict or a string.
InitMapped ==
    /\ wfOrder \in {<<"A", "B">>, <<"B", "A">>}
    /\ wfDeps = [n \in Ids |-> IF n = "B" THEN <<"A">> ELSE <<>>]
    /\ \E ref \in ProducerRefs :
         wfMap = [n \in Ids |-> IF n = "B" THEN <<<<"x", ref>>>> ELSE <<>>]
    /\ entryPoint = "A"
    /\ finalNode = "B"
    /\ maxSteps \in 1..2
    /\ agentIds = Ids
    /\ inputData = StrV("start")
    /\ outVals \in {{ValueDict}, {StrV("out")}}

DagInit ==
    /\ InitWellFormed \/ InitMalformed \/ InitMapped
    /\ DagFresh

\* ------------------------------------------------------------------------
\* The sequential pipeline: SequentialOrchestrator
\* ------------------------------------------------------------------------

\* In this part a string is StrV of the sequence of its pieces.

\* a workflow without the key "sequence"
NoSequence == <<"absent">>

\* a lookup that reads a workflow without the key as a one-agent list
SequenceOrDefaultAgent(wf) == IF wf = NoSequence THEN <<"A">> ELSE wf[2]

\* self._config.workflow.get("sequence", [])
AgentSequence(wf) == IF wf = NoSequence THEN <<>> ELSE wf[2]

\* the text a stub reads from what it is handed: the content of a message,
\* the string itself, str() of anything else
TextOf(v) ==
    IF v[1] = "msg" THEN v[3][2]
    ELSE IF v[1] = "str" THEN v[2]
    ELSE <<"<dict>">>

\* the plan a planner returns: a dict without a role
PlanValue == DictV(<<<<"description", StrV(<<"Generated plan">>)>>>>)

\* what the stubs do: "append" returns the input's text with its own name
\* appended, "message" returns that text as an assistant message (as
\* ReActAgent, FunctionCallingAgent and ConversationalAgent do), "plan"
\* returns a plan (as PlannerAgent does)
StubKinds == {"append", "message", "plan"}

\* the output of the stub of an agent id on an input
StubOutput(kind, id, in) ==
    IF kind = "append" THEN StrV(TextOf(in) \o <<"|", id>>)
    ELSE IF kind = "message" THEN MsgV("assistant", StrV(TextOf(in) \o <<"|", id>>))
    ELSE PlanValue

\* a pipeline that hands the workflow input to every agent
HandedWorkflowInput(cur, out) == cur

\* "current_input = await agent.run(current_input)": what the next agent
\* is handed after a run on cur returned out
HandedOn(cur, out) == out

\* an orchestrator that has a default agent for every id
AnyAgent(id) == TRUE

\* "agent = self._agents.get(agent_id)" finds an agent
HasAgent(id) == id \in seqAgents

\* execute up to the for loop: the sequence is read and checked, the input
\* is formatted
SeqStart ==
    /\ spc = "start"
    /\ IF AgentSequence(seqWorkflow) = <<>>
       THEN /\ spc' = "raised"
            /\ serr' = "no_sequence"
            /\ UNCHANGED <<seqCur, seqPos>>
       ELSE /\ spc' = "loop"
            /\ seqCur' = FormatInput(seqInput)
            /\ seqPos' = 1
            /\ UNCHANGED serr
    /\ UNCHANGED <<dagVars, agentVars, seqConfig, sret, seqLog>>

\* the for loop is at an id that self._agents does not hold: execute raises
SeqNoAgent ==
    /\ spc = "loop"
    /\ seqPos <= Len(AgentSequence(seqWorkflow))
    /\ ~HasAgent(AgentSequence(seqWorkflow)[seqPos])
    /\ spc' = "raised"
    /\ serr' = "agent_not_found"
    /\ UNCHANGED <<dagVars, agentVars, seqConfig, seqCur, seqPos, sret, seqLog>>

\* the agent the for loop is at is run on current_input and returns
SeqRunAgent ==
    /\ spc = "loop"
    /\ seqPos <= Len(AgentSequence(seqWorkflow))
    /\ HasAgent(AgentSequence(seqWorkflow)[seqPos])
    /\ LET id == AgentSequence(seqWorkflow)[seqPos]
           out == StubOutput(seqKind[id], id, seqCur)
       IN /\ seqLog' = Append(seqLog, <<id, seqCur, out>>)
          /\ seqCur' = HandedOn(seqCur, out)
    /\ seqPos' = seqPos + 1
    /\ UNCHANGED <<dagVars, agentVars, seqConfig, spc, sret, serr>>

\* the agent the for loop is at is run and raises: execute raises with it
SeqRunRaises ==
    /\ spc = "loop"
    /\ seqPos <= Len(AgentSequence(seqWorkflow))
    /\ HasAgent(AgentSequence(seqWorkflow)[seqPos])
    /\ seqLog' = Append(seqLog, <<AgentSequence(seqWorkflow)[seqPos], seqCur, None>>)
    /\ spc' = "raised"
    /\ serr' = "agent_raised"
    /\ UNCHANGED <<dagVars, agentVars, seqConfig, seqCur, seqPos, sret>>

\* the for loop is over: current_input is returned
SeqReturn ==
    /\ spc = "loop"
    /\ seqPos > Len(AgentSequence(seqWorkflow))
    /\ spc' = "returned"
    /\ sret' = seqCur
    /\ UNCHANGED <<dagVars, agentVars, seqConfig, seqCur, seqPos, serr, seqLog>>

SeqNext ==
    \/ SeqStart
    \/ SeqNoAgent
    \/ SeqRunAgent
    \/ SeqRunRaises
    \/ SeqReturn

\* the id lists of at most n ids
IdLists(n) == UNION {[1..k -> Ids] : k \in 0..n}

\* the state of a sequential execute that has not started
SeqFresh ==
    /\ seqCur = None
    /\ seqPos = 0
    /\ spc = "start"
    /\ sret = None
    /\ serr = "none"
    /\ seqLog = <<>>

\* Workflows with and without a sequence, over orchestrators that hold all
\* agents or lack C; the input is a string, a message or a dict without role.
SeqInit ==
    /\ seqWorkflow \in {NoSequence} \cup {<<"seq", l>> : l \in IdLists(MaxSeqLen)}
    /\ seqAgents \in {Ids, {"A", "B"}}
    /\ seqKind \in [Ids -> StubKinds]
    /\ seqInput \in {StrV(<<"start">>), MsgV("user", StrV(<<"start">>)), PlanValue}
    /\ SeqFresh

\* ------------------------------------------------------------------------
\* The agent decision loop: BaseAgent and its subclasses
\* ------------------------------------------------------------------------

\* a factory that gives the conversational agent the tool loop as well
LoopForConversational == {"react", "function_calling", "conversational"}

\* the agent types whose class runs the tool loop, and those whose class
\* issues a single completion
ToolLoopKinds == {"react", "function_calling"}

OneShotKinds == {"conversational", "planner"}

\* A message of the history.  content is the text as the sequence of its
\* pieces; tool_call_id is 0 and tool_calls is <<>> where the key is absent.
Message(role, content, id, calls) ==
    [role |-> role, content |-> content, tool_call_id |-> id, tool_calls |-> calls]

\* BaseAgent._add_system_message's message
SystemMessage == Message("system", <<"system prompt">>, 0, <<>>)

\* an item of the history that is no message: an input that was neither a
\* string nor a dict with a role
RawItem == Message("none", <<"raw">>, 0, <<>>)

\* What a caller passes to run: a string, a role-tagged message, or a value
\* that is neither.
Inputs == {<<"str">>, <<"msg", "user">>, <<"msg", "assistant">>,
           <<"msg", "system">>, <<"msg", "tool">>, <<"raw">>}

\* run's "Convert string input to message if needed"
NormalizeInput(in) ==
    IF in[1] = "str" THEN Message("user", <<"hi">>, 0, <<>>)
    ELSE IF in[1] = "msg" THEN Message(in[2], <<"hi">>, 0, <<>>)
    ELSE RawItem

\* a run that does not look for a system message in the history
NeverHasSystem(h) == FALSE

\* any(msg.get("role") == "system" for msg in messages)
HasSystem(h) == \E i \in 1..Len(h) : h[i].role = "system"

\* run's first lines: the system message is added when the history has
\* none, then the input message
SeededHistory(h, in) ==
    Append(IF HasSystem(h) THEN h ELSE Append(h, SystemMessage), NormalizeInput(in))

\* the names ToolRegistry holds, and each tool's spec.required_parameters
Registry == {"calc"}

\* tools that declare no required parameter
NoRequired == [n \in Registry |-> {}]

\* tool.parameters["required"] of each registered tool
Required == [n \in Registry |-> {"x"}]

\* the tool names a provider may ask for
CallNames == {"calc", "foo"}

\* BaseAgent._get_tools: the registered tools among the names, the others skipped
GetTools(names) == names \cap Registry

\* the tools argument of run, when given
NoOverride == <<"none">>

Overrides == {NoOverride, <<"tools", {}>>, <<"tools", {"calc"}>>}

\* a run that resolves the definition's tools whatever it is passed
ConfigToolsAlways(override) == GetTools(cfgTools)

\* run's "if tools is None: tools = await self._get_tools()"
ActiveTools(override) ==
    IF override = NoOverride THEN GetTools(cfgTools) ELSE override[2]

\* the names _get_tools hands to ToolRegistry.get: those of config.tools when
\* run got no tools argument, none when it got one
LookedUpNames(override) ==
    IF override = NoOverride THEN cfgTools ELSE {}

\* Serialized argument payloads: one that holds the required parameter, one
\* that lacks it, one that is not JSON.
PayloadOk == "{\"x\": 1}"

PayloadMissing == "{}"

PayloadBad == "{bad"

Payloads == {PayloadOk, PayloadMissing, PayloadBad}

\* whether json.loads(arguments_str) returns
JsonParses(p) == p # PayloadBad

\* the keys of json.loads(arguments_str)
JsonKeys(p) == IF p = PayloadOk THEN {"x"} ELSE {}

\* a tool-call request of a response
ToolCall(id, name, arguments) == [id |-> id, name |-> name, arguments |-> arguments]

\* the requests a provider may put in a response
CallShapes == {<<"foo", PayloadMissing>>, <<"calc", PayloadOk>>,
               <<"calc", PayloadMissing>>, <<"calc", PayloadBad>>}

\* the tool_calls of a response: the shapes, with ids counted from first
CallsOf(shapes, first) ==
    [i \in 1..Len(shapes) |-> ToolCall(first + i - 1, shapes[i][1], shapes[i][2])]

ShapeSeqs == UNION {[1..k -> CallShapes] : k \in 1..MaxCalls}

\* How one tool call of the for loop ends: the tool is not in the active
\* set, json.loads raises, FunctionTool.execute misses a required parameter,
\* or the wrapped function is called and returns or raises.
ToolOutcome(call, active, funcRaises) ==
    IF call.name \notin active THEN "not_found"
    ELSE IF ~JsonParses(call.arguments) THEN "parse_error"
    ELSE IF ~(Required[call.name] \subseteq JsonKeys(call.arguments))
         THEN "validation_error"
    ELSE IF funcRaises THEN "exec_error"
    ELSE "ok"

\* the outcomes in which the wrapped function was called
Invoking == {"ok", "exec_error"}

\* a try block that json.loads is outside of
CaughtAfterParse == {"validation_error", "exec_error"}

\* the outcomes that are exceptions raised inside run's try block
CaughtFailures == {"parse_error", "validation_error", "exec_error"}

\* another wording of the answer to a call of an unknown tool
UnknownToolText(name) == <<"Error: unknown tool ", name>>

\* f"Error: Tool {tool_name} not found"
NotFoundText(name) == <<"Error: Tool ", name, " not found">>

\* str(e) of the exception of a failed call
ExceptionText(outcome, call) ==
    IF outcome = "parse_error" THEN <<"Expecting property name">>
    ELSE IF outcome = "validation_error"
         THEN <<"Required parameter ",
                CHOOSE q \in Required[call.name] : q \notin JsonKeys(call.arguments),
                " missing">>
    ELSE <<"boom">>

\* f"Error: {str(e)}"
ErrorText(outcome, call) == <<"Error: ">> \o ExceptionText(outcome, call)

\* the content of the tool message of a call
ToolContent(outcome, call) ==
    IF outcome = "not_found" THEN NotFoundText(call.name)
    ELSE IF outcome = "ok" THEN <<"42">>
    ELSE ErrorText(outcome, call)

\* an answer that carries the id of the first call of the response
FirstCallId(calls, i) == calls[1].id

\* tool_call.get("id"), the tool_call_id of the answer to call i
AnswerId(calls, i) == calls[i].id

\* tool_response
ToolMessage(outcome, calls, i) ==
    Message("tool", ToolContent(outcome, calls[i]), AnswerId(calls, i), <<>>)

\* what run returns
NoResponse == <<"none">>

\* a run that forgets final_response = response
ReturnedNothing(msg) == NoResponse

Returned(msg) == <<"msg", msg>>

\* a state whose counter is left as it was
StaleIterations(it) == stIter

\* self._state["iterations"] = iterations
StateIterations(it) == it

\* a loop test on the counter of the state, which earlier runs have advanced
StateBudgetContinues(it) == stIter < maxIter

\* a loop test that lets one more iteration through
LoopContinuesInclusive(it) == it <= maxIter

\* while iterations < max_iterations
LoopContinues(it) == it < maxIter

\* a loop that keeps the messages it read before its first iteration
StaleMessages(h) == messages

\* messages = await self._memory.get_conversation_history(), after the
\* tool calls of an iteration
RefreshedMessages(h) == h

\* run returns or raises: its frame, with its locals, is gone
FrameDropped ==
    /\ apc' = "done"
    /\ messages' = <<>>
    /\ iterations' = 0
    /\ tools' = {}
    /\ lookedUp' = {}
    /\ toolsArg' = NoOverride
    /\ toolCalls' = <<>>
    /\ callIdx' = 0
    /\ invoked' = <<>>

\* a reset that keeps the counter of the state
KeptIterations == stIter

\* the "iterations" of reset's self._state = {"messages": [], "iterations": 0}
ResetIterations == 0

\* reset: memory cleared, state replaced, system message added
AgentReset ==
    /\ apc \in {"idle", "done"}
    /\ nResets < MaxResets
    /\ history' = <<SystemMessage>>
    /\ freshHistory' = <<>>
    /\ stIter' = ResetIterations
    /\ apc' = "idle"
    /\ nResets' = nResets + 1
    /\ aret' = NoResponse
    /\ araised' = "none"
    /\ completions' = 0
    /\ toolCompletions' = 0
    /\ lastOutcome' = "none"
    /\ UNCHANGED <<dagVars, seqVars, agentConfig, agentLocals, nextCallId, nRuns, invoked,
                   lookedUp, toolsArg>>

\* what every run does first: the history is seeded and snapshot into
\* messages, the counters of the run start at zero
RunPrologue(in) ==
    /\ apc \in {"idle", "done"}
    /\ nRuns < MaxRuns
    /\ nRuns' = nRuns + 1
    /\ history' = SeededHistory(history, in)
    /\ freshHistory' = SeededHistory(freshHistory, in)
    /\ messages' = SeededHistory(history, in)
    /\ iterations' = 0
    /\ aret' = NoResponse
    /\ araised' = "none"
    /\ completions' = 0
    /\ toolCompletions' = 0
    /\ invoked' = <<>>
    /\ lastOutcome' = "none"
    /\ toolCalls' = <<>>
    /\ callIdx' = 0
    /\ UNCHANGED <<dagVars, seqVars, agentConfig, stIter, nextCallId, nResets>>

\* ReActAgent.run and FunctionCallingAgent.run up to the while loop
LoopRunStart ==
    /\ aKind \in ToolLoopKinds
    /\ \E in \in Inputs : RunPrologue(in)
    /\ \E ov \in Overrides :
         /\ tools' = ActiveTools(ov)
         /\ lookedUp' = LookedUpNames(ov)
         /\ toolsArg' = ov
    /\ apc' = "loop"

\* ConversationalAgent.run and PlannerAgent.run up to the completion
OneShotRunStart ==
    /\ aKind \in OneShotKinds
    /\ \E in \in Inputs : RunPrologue(in)
    /\ tools' = {}
    /\ lookedUp' = {}
    /\ toolsArg' = NoOverride
    /\ apc' = "oneshot"

\* the iteration starts: the counter is advanced and written to the state
IterationStart ==
    /\ apc = "loop"
    /\ LoopContinues(iterations)
    /\ stIter' = StateIterations(iterations + 1)
    /\ lastOutcome' = "none"

\* an iteration whose _get_provider raises: the provider is not registered
LoopNoProvider ==
    /\ IterationStart
    /\ ~providerOk
    /\ FrameDropped
    /\ araised' = "provider_not_registered"
    /\ UNCHANGED <<dagVars, seqVars, agentConfig, history, freshHistory, aret, nextCallId, nRuns,
                   nResets, completions, toolCompletions>>

\* an iteration whose provider.complete raises
LoopProviderRaises ==
    /\ IterationStart
    /\ providerOk
    /\ completions' = completions + 1
    /\ FrameDropped
    /\ araised' = "provider_error"
    /\ UNCHANGED <<dagVars, seqVars, agentConfig, history, freshHistory, aret, nextCallId, nRuns,
                   nResets, toolCompletions>>

\* a response without tool calls
FinalResponses == {Message("assistant", <<"answer">>, 0, <<>>)}

\* an iteration whose response has no tool calls: it is appended and returned
LoopFinal ==
    /\ IterationStart
    /\ providerOk
    /\ completions' = completions + 1
    /\ \E resp \in FinalResponses :
         /\ history' = Append(history, resp)
         /\ freshHistory' = Append(freshHistory, resp)
         /\ aret' = Returned(resp)
    /\ FrameDropped
    /\ UNCHANGED <<dagVars, seqVars, agentConfig, araised, nextCallId, nRuns, nResets,
                   toolCompletions>>

\* an iteration whose response has tool calls: it is appended and the for
\* loop over its tool calls starts
LoopToolCalls ==
    /\ IterationStart
    /\ providerOk
    /\ iterations' = iterations + 1
    /\ completions' = completions + 1
    /\ toolCompletions' = toolCompletions + 1
    /\ \E shapes \in ShapeSeqs :
         /\ Len(history) + 1 + Len(shapes) <= MaxHistory
         /\ toolCalls' = CallsOf(shapes, nextCallId)
         /\ history' = Append(history,
                Message("assistant", <<>>, 0, CallsOf(shapes, nextCallId)))
         /\ freshHistory' = Append(freshHistory,
                Message("assistant", <<>>, 0, CallsOf(shapes, nextCallId)))
         /\ nextCallId' = nextCallId + Len(shapes)
    /\ callIdx' = 1
    /\ invoked' = <<>>
    /\ apc' = "tools"
    /\ UNCHANGED <<dagVars, seqVars, agentConfig, messages, tools, lookedUp, toolsArg, aret, araised, nRuns,
                   nResets>>

\* one turn of the for loop over tool_calls: the call is answered by a tool
\* message; after the last call messages is read again
ToolStep(funcRaises) ==
    /\ apc = "tools"
    /\ LET call == toolCalls[callIdx]
           outcome == ToolOutcome(call, tools, funcRaises)
           answered == Append(history, ToolMessage(outcome, toolCalls, callIdx))
       IN /\ lastOutcome' = outcome
          /\ IF outcome \in CaughtFailures \cup {"not_found", "ok"}
             THEN /\ history' = answered
                  /\ freshHistory' = Append(freshHistory,
                                            ToolMessage(outcome, toolCalls, callIdx))
                  /\ invoked' = IF outcome \in Invoking
                                THEN Append(invoked, call.id) ELSE invoked
                  /\ IF callIdx < Len(toolCalls)
                     THEN /\ callIdx' = callIdx + 1
                          /\ UNCHANGED <<apc, messages>>
                     ELSE /\ callIdx' = 0
                          /\ apc' = "loop"
                          /\ messages' = RefreshedMessages(answered)
                  /\ UNCHANGED <<araised, iterations, tools, lookedUp, toolsArg, toolCalls>>
             ELSE /\ FrameDropped
                  /\ araised' = outcome
                  /\ UNCHANGED <<history, freshHistory>>
    /\ UNCHANGED <<dagVars, seqVars, agentConfig, stIter, aret, nextCallId, nRuns,
                   nResets, completions, toolCompletions>>

\* a call that ends without the wrapped function raising
ToolCallDone == ToolStep(FALSE)

\* a call whose wrapped function is called and raises
ToolCallRaises ==
    /\ apc = "tools"
    /\ ToolOutcome(toolCalls[callIdx], tools, TRUE) = "exec_error"
    /\ ToolStep(TRUE)

\* the pieces of a content that open a fenced json block (three backticks,
\* json, a line break) and close it (a line break, three backticks)
FenceOpen == "<fence json>"

FenceClose == "<fence>"

\* the contents a response of a one-shot run may have
OneShotContents == {<<"answer">>, <<FenceOpen, PayloadOk, FenceClose>>,
                    <<FenceOpen, PayloadBad, FenceClose>>}

\* the responses a provider may give to a one-shot run: tool calls too
OneShotResponses ==
    {Message("assistant", c, 0, <<>>) : c \in OneShotContents}
    \cup {Message("assistant", <<>>, 0, CallsOf(<<<<"calc", PayloadOk>>>>, nextCallId))}

\* re.search of the fenced block in content: the places of the opening
\* pieces that a closing piece follows
FenceStarts(content) ==
    {i \in 1..Len(content) :
        content[i] = FenceOpen /\ \E j \in (i + 1)..Len(content) : content[j] = FenceClose}

HasFence(content) == FenceStarts(content) # {}

\* json_match.group(1)
FencedText(content) ==
    LET i == CHOOSE k \in FenceStarts(content) : \A m \in FenceStarts(content) : k <= m
        j == CHOOSE k \in (i + 1)..Len(content) :
                 content[k] = FenceClose
                 /\ \A m \in (i + 1)..(k - 1) : content[m] # FenceClose
    IN SubSeq(content, i + 1, j - 1)

\* whether json.loads(plan_json) returns
PlanParses(text) == Len(text) = 1 /\ text[1] \in Payloads /\ JsonParses(text[1])

\* PlannerAgent.run's plan: the parsed block, the simple plan when the
\* content has no block, the simple plan with parsing_error when json.loads
\* raises
PlanOf(resp) ==
    IF HasFence(resp.content)
    THEN (IF PlanParses(FencedText(resp.content))
          THEN <<"json", FencedText(resp.content)>>
          ELSE <<"plan", "Generated plan", <<resp.content>>, <<"Expecting property name">>>>)
    ELSE <<"plan", "Generated plan", <<resp.content>>, <<>>>>

\* a one-shot run whose _get_provider raises
OneShotNoProvider ==
    /\ apc = "oneshot"
    /\ ~providerOk
    /\ FrameDropped
    /\ araised' = "provider_not_registered"
    /\ UNCHANGED <<dagVars, seqVars, agentConfig, history, freshHistory, stIter, aret, nextCallId,
                   nRuns, nResets, completions, toolCompletions, lastOutcome>>

\* a one-shot run whose provider.complete raises
OneShotProviderRaises ==
    /\ apc = "oneshot"
    /\ providerOk
    /\ completions' = completions + 1
    /\ FrameDropped
    /\ araised' = "provider_error"
    /\ UNCHANGED <<dagVars, seqVars, agentConfig, history, freshHistory, stIter, aret, nextCallId,
                   nRuns, nResets, toolCompletions, lastOutcome>>

\* a completion that counts as an iteration in the agent's state
OneShotCompleteCounts(resp) ==
    /\ apc = "oneshot"
    /\ providerOk
    /\ completions' = completions + 1
    /\ toolCompletions' = toolCompletions + (IF resp.tool_calls # <<>> THEN 1 ELSE 0)
    /\ nextCallId' = nextCallId + Len(resp.tool_calls)
    /\ history' = Append(history, resp)
    /\ freshHistory' = Append(freshHistory, resp)
    /\ FrameDropped
    /\ stIter' = stIter + 1
    /\ UNCHANGED <<dagVars, seqVars, agentConfig, nRuns, nResets, lastOutcome>>

\* the completion of a one-shot run: the response is appended
OneShotComplete(resp) ==
    /\ apc = "oneshot"
    /\ providerOk
    /\ completions' = completions + 1
    /\ toolCompletions' = toolCompletions + (IF resp.tool_calls # <<>> THEN 1 ELSE 0)
    /\ nextCallId' = nextCallId + Len(resp.tool_calls)
    /\ history' = Append(history, resp)
    /\ freshHistory' = Append(freshHistory, resp)
    /\ FrameDropped
    /\ UNCHANGED <<dagVars, seqVars, agentConfig, stIter, nRuns, nResets, lastOutcome>>

\* ConversationalAgent.run from the completion on: the response is returned
ConversationalComplete ==
    /\ aKind = "conversational"
    /\ \E resp \in OneShotResponses :
         /\ OneShotComplete(resp)
         /\ aret' = Returned(resp)
         /\ araised' = araised

\* what the try block of PlannerAgent.run ends with
PlanOutcome(resp) ==
    IF ~HasFence(resp.content) THEN "no_block"
    ELSE IF PlanParses(FencedText(resp.content)) THEN "parsed"
    ELSE "parse_error"

\* a variant in which the try block has no handler
PlanCaughtNothing == {}

\* the failures of the try block that "except Exception" catches
PlanCaughtFailures == {"parse_error"}

\* PlannerAgent.run from the completion on: the plan is returned, and a
\* failure of the extraction that no handler catches leaves the run
PlannerComplete ==
    /\ aKind = "planner"
    /\ \E resp \in OneShotResponses :
         /\ OneShotComplete(resp)
         /\ IF PlanOutcome(resp) = "parse_error"
               /\ PlanOutcome(resp) \notin PlanCaughtFailures
            THEN /\ araised' = "plan_error"
                 /\ aret' = NoResponse
            ELSE /\ araised' = araised
                 /\ aret' = PlanOf(resp)

\* the while loop ends on the iteration bound: final_response is returned
LoopExit ==
    /\ apc = "loop"
    /\ ~LoopContinues(iterations)
    /\ FrameDropped
    /\ lastOutcome' = "none"
    /\ UNCHANGED <<dagVars, seqVars, agentConfig, history, freshHistory, stIter, aret, araised,
                   nextCallId, nRuns, nResets, completions, toolCompletions>>

\* ------------------------------------------------------------------------
\* FunctionCallingAgent.run, translated on its own
\* ------------------------------------------------------------------------

\* run's first lines in FunctionCallingAgent: the system message is added
\* when the history has none, a string input is wrapped, the input is added
FCSeededHistory(h, in) ==
    LET seeded == IF \E i \in 1..Len(h) : h[i].role = "system"
                  THEN h ELSE Append(h, SystemMessage)
        item == IF in[1] = "str" THEN Message("user", <<"hi">>, 0, <<>>)
                ELSE IF in[1] = "msg" THEN Message(in[2], <<"hi">>, 0, <<>>)
                ELSE RawItem
    IN Append(seeded, item)

\* how one function call of the for loop ends in FunctionCallingAgent
FCToolOutcome(call, active, funcRaises) ==
    IF call.name \notin active THEN "not_found"
    ELSE IF ~JsonParses(call.arguments) THEN "parse_error"
    ELSE IF ~(Required[call.name] \subseteq JsonKeys(call.arguments))
         THEN "validation_error"
    ELSE IF funcRaises THEN "exec_error"
    ELSE "ok"

\* an except clause that renders the exception without the "Error: " prefix
FCBareErrorText(outcome, call) == ExceptionText(outcome, call)

\* FunctionCallingAgent's f"Error: {str(e)}"
FCErrorText(outcome, call) == <<"Error: ">> \o ExceptionText(outcome, call)

\* FunctionCallingAgent's tool_response
FCToolResponse(outcome, call) ==
    Message("tool",
            IF outcome = "not_found" THEN <<"Error: Tool ", call.name, " not found">>
            ELSE IF outcome = "ok" THEN <<"42">>
            ELSE FCErrorText(outcome, call),
            call.id, <<>>)

\* FunctionCallingAgent.run up to the while loop
FCRunStart ==
    /\ apc \in {"idle", "done"}
    /\ nRuns < MaxRuns
    /\ nRuns' = nRuns + 1
    /\ \E in \in Inputs :
         /\ history' = FCSeededHistory(history, in)
         /\ messages' = FCSeededHistory(history, in)
         /\ freshHistory' = FCSeededHistory(freshHistory, in)
    /\ \E ov \in Overrides :
         /\ tools' = IF ov = NoOverride THEN GetTools(cfgTools) ELSE ov[2]
         /\ lookedUp' = IF ov = NoOverride THEN cfgTools ELSE {}
         /\ toolsArg' = ov
    /\ iterations' = 0
    /\ aret' = NoResponse
    /\ araised' = "none"
    /\ completions' = 0
    /\ toolCompletions' = 0
    /\ invoked' = <<>>
    /\ lastOutcome' = "none"
    /\ toolCalls' = <<>>
    /\ callIdx' = 0
    /\ apc' = "loop"
    /\ UNCHANGED <<dagVars, seqVars, agentConfig, stIter, nextCallId, nResets>>

\* the iteration starts in FunctionCallingAgent
FCIterationStart ==
    /\ apc = "loop"
    /\ iterations < maxIter
    /\ stIter' = iterations + 1
    /\ lastOutcome' = "none"

\* an iteration of FunctionCallingAgent whose _get_provider raises
FCNoProvider ==
    /\ FCIterationStart
    /\ ~providerOk
    /\ FrameDropped
    /\ araised' = "provider_not_registered"
    /\ UNCHANGED <<dagVars, seqVars, agentConfig, history, freshHistory, aret, nextCallId,
                   nRuns, nResets, completions, toolCompletions>>

\* an iteration of FunctionCallingAgent whose provider.complete raises
FCProviderRaises ==
    /\ FCIterationStart
    /\ providerOk
    /\ completions' = completions + 1
    /\ FrameDropped
    /\ araised' = "provider_error"
    /\ UNCHANGED <<dagVars, seqVars, agentConfig, history, freshHistory, aret, nextCallId,
                   nRuns, nResets, toolCompletions>>

\* an iteration of FunctionCallingAgent whose response has no function calls
FCFinal ==
    /\ FCIterationStart
    /\ providerOk
    /\ completions' = completions + 1
    /\ \E resp \in FinalResponses :
         /\ history' = Append(history, resp)
         /\ freshHistory' = Append(freshHistory, resp)
         /\ aret' = <<"msg", resp>>
    /\ FrameDropped
    /\ UNCHANGED <<dagVars, seqVars, agentConfig, araised, nextCallId, nRuns, nResets,
                   toolCompletions>>

\* an iteration of FunctionCallingAgent whose response has function calls
FCToolCalls ==
    /\ FCIterationStart
    /\ providerOk
    /\ iterations' = iterations + 1
    /\ completions' = completions + 1
    /\ toolCompletions' = toolCompletions + 1
    /\ \E shapes \in ShapeSeqs :
         /\ Len(history) + 1 + Len(shapes) <= MaxHistory
         /\ toolCalls' = CallsOf(shapes, nextCallId)
         /\ history' = Append(history,
                Message("assistant", <<>>, 0, CallsOf(shapes, nextCallId)))
         /\ freshHistory' = Append(freshHistory,
                Message("assistant", <<>>, 0, CallsOf(shapes, nextCallId)))
         /\ nextCallId' = nextCallId + Len(shapes)
    /\ callIdx' = 1
    /\ invoked' = <<>>
    /\ apc' = "tools"
    /\ UNCHANGED <<dagVars, seqVars, agentConfig, messages, tools, lookedUp, toolsArg, aret, araised, nRuns,
                   nResets>>

\* one turn of FunctionCallingAgent's for loop over tool_calls
FCToolStep(funcRaises) ==
    /\ apc = "tools"
    /\ LET call == toolCalls[callIdx]
           outcome == FCToolOutcome(call, tools, funcRaises)
       IN /\ lastOutcome' = outcome
          /\ history' = Append(history, FCToolResponse(outcome, call))
          /\ freshHistory' = Append(freshHistory, FCToolResponse(outcome, call))
          /\ invoked' = IF outcome \in {"ok", "exec_error"}
                        THEN Append(invoked, call.id) ELSE invoked
          /\ IF callIdx < Len(toolCalls)
             THEN /\ callIdx' = callIdx + 1
                  /\ UNCHANGED <<apc, messages>>
             ELSE /\ callIdx' = 0
                  /\ apc' = "loop"
                  /\ messages' = Append(history, FCToolResponse(outcome, call))
    /\ UNCHANGED <<dagVars, seqVars, agentConfig, stIter, aret, araised, iterations, tools, lookedUp, toolsArg,
                   toolCalls, nextCallId, nRuns, nResets, completions,
                   toolCompletions>>

\* a function call that ends without the wrapped function raising
FCToolCallDone == FCToolStep(FALSE)

\* a function call whose wrapped function is called and raises
FCToolCallRaises ==
    /\ apc = "tools"
    /\ FCToolOutcome(toolCalls[callIdx], tools, TRUE) = "exec_error"
    /\ FCToolStep(TRUE)

\* FunctionCallingAgent's while loop ends on the iteration bound
FCExit ==
    /\ apc = "loop"
    /\ ~(iterations < maxIter)
    /\ FrameDropped
    /\ lastOutcome' = "none"
    /\ UNCHANGED <<dagVars, seqVars, agentConfig, history, freshHistory, stIter, aret, araised,
                   nextCallId, nRuns, nResets, completions, toolCompletions>>

\* a step of FunctionCallingAgent.run
FCRunStep ==
    \/ FCRunStart
    \/ FCNoProvider
    \/ FCProviderRaises
    \/ FCFinal
    \/ FCToolCalls
    \/ FCToolCallDone
    \/ FCToolCallRaises
    \/ FCExit

\* a step of a function-calling agent's run
FunctionCallingStep == aKind = "function_calling" /\ FCRunStep

\* a step of ReActAgent.run
ReActRunStep ==
    \/ LoopRunStart
    \/ LoopNoProvider
    \/ LoopProviderRaises
    \/ LoopFinal
    \/ LoopToolCalls
    \/ ToolCallDone
    \/ ToolCallRaises
    \/ LoopExit

\* the state of an agent as constructed
AgentFresh ==
    /\ history = <<>>
    /\ stIter = 0
    /\ apc = "idle"
    /\ messages = <<>>
    /\ iterations = 0
    /\ tools = {}
    /\ lookedUp = {}
    /\ toolsArg = NoOverride
    /\ toolCalls = <<>>
    /\ callIdx = 0
    /\ aret = NoResponse
    /\ araised = "none"
    /\ nextCallId = 1
    /\ nRuns = 0
    /\ nResets = 0
    /\ completions = 0
    /\ toolCompletions = 0
    /\ invoked = <<>>
    /\ lastOutcome = "none"
    /\ freshHistory = <<>>

AgentInit ==
    /\ aKind \in ToolLoopKinds \cup OneShotKinds
    /\ maxIter \in 1..MaxIterBound
    /\ cfgTools = {"calc", "foo"}
    /\ providerOk \in BOOLEAN
    /\ AgentFresh

AgentNext ==
    \/ AgentReset
    \/ LoopRunStart
    \/ LoopNoProvider
    \/ LoopProviderRaises
    \/ LoopFinal
    \/ LoopToolCalls
    \/ ToolCallDone
    \/ ToolCallRaises
    \/ LoopExit
    \/ OneShotRunStart
    \/ OneShotNoProvider
    \/ OneShotProviderRaises
    \/ ConversationalComplete
    \/ PlannerComplete
    \/ FunctionCallingStep

\* ------------------------------------------------------------------------
\* Specifications
\* ------------------------------------------------------------------------

\* no workflow: the scheduler's variables while an agent is checked
DagIdle ==
    /\ wfOrder = <<>>
    /\ wfDeps = [n \in Ids |-> <<>>]
    /\ wfMap = [n \in Ids |-> <<>>]
    /\ entryPoint = NoNode
    /\ finalNode = NoNode
    /\ maxSteps = 0
    /\ agentIds = {}
    /\ inputData = None
    /\ outVals = {}
    /\ DagFresh

\* no agent: the agent's variables while the scheduler is checked
AgentIdle ==
    /\ aKind = "react"
    /\ maxIter = 1
    /\ cfgTools = {}
    /\ providerOk = TRUE
    /\ AgentFresh

\* no pipeline: the sequential orchestrator's variables while another part
\* is checked
SeqIdle ==
    /\ seqWorkflow = NoSequence
    /\ seqAgents = {}
    /\ seqKind = [n \in Ids |-> "append"]
    /\ seqInput = None
    /\ SeqFresh

InitDAG == DagInit /\ AgentIdle /\ SeqIdle

InitAgent == AgentInit /\ DagIdle /\ SeqIdle

InitSeq == SeqInit /\ DagIdle /\ AgentIdle

\* one execute of a DAG workflow over stub agents
SpecDAG == InitDAG /\ [][DagNext]_vars

\* the same execute, which goes on while it has a step to take: the event
\* loop resumes the coroutine whenever an awaited agent run has ended
SpecDAGLive == InitDAG /\ [][DagNext]_vars /\ WF_vars(DagNext)

\* the runs and resets of one agent
SpecAgent == InitAgent /\ [][AgentNext]_vars

\* one execute of a sequential workflow over stub agents
SpecSeq == InitSeq /\ [][SeqNext]_vars

\* ------------------------------------------------------------------------
\* The workflow scheduler's properties
\* ------------------------------------------------------------------------

\* C1: a node's agent is run only in a state where every dependency the node
\* declares is a key of results.
C1_RunOnlyWhenDepsInResults ==
    [][\A n \in Ids :
          ran'[n] > ran[n] =>
             \A i \in 1..Len(wfDeps[n]) : wfDeps[n][i] \in DOMAIN results]_vars

\* a node with two dependencies has run, after a round in which it could not
C1_Witness ==
    \E n \in Ids :
       /\ ran[n] = 1
       /\ Len(wfDeps[n]) = 2
       /\ steps >= 2
       /\ \A i \in 1..2 : wfDeps[n][i] \in DOMAIN results

\* C2: within one execute no node's agent is run more than once, whatever
\* the graph and whatever max_steps.
C2_NoNodeRunsTwice == \A n \in Ids : ran[n] <= 1

\* a later round scans a node that ran in an earlier one, while another node
\* still waits
C2_Witness ==
    /\ steps >= 2
    /\ dpc = "for"
    /\ scan <= Len(wfOrder)
    /\ wfOrder[scan] \in processed
    /\ DepsSatisfied(wfOrder[scan], results)
    /\ ran[wfOrder[scan]] = 1

\* ------------------------------------------------------------------------
\* The agent decision loop's properties
\* ------------------------------------------------------------------------

\* the ids of the tool calls of a message
CallIds(msg) == {msg.tool_calls[k].id : k \in 1..Len(msg.tool_calls)}

\* the places of the history where an assistant message with tool calls is
Requests(h) == {i \in 1..Len(h) : h[i].role = "assistant" /\ h[i].tool_calls # <<>>}

\* the run has ended and every completion call of it was answered with a
\* tool-call request
AlwaysToolCalls ==
    /\ aKind \in ToolLoopKinds
    /\ providerOk
    /\ apc = "done"
    /\ nRuns > 0
    /\ completions = toolCompletions

\* C3: a tool-loop run whose provider answers every completion with a
\* tool-call request never goes past max_iterations iterations, ends after
\* exactly max_iterations of them, returns no response and does not raise.
C3_BudgetExhaustedReturnsNull ==
    aKind \in ToolLoopKinds =>
       /\ iterations <= maxIter
       /\ completions <= maxIter
       /\ AlwaysToolCalls =>
             /\ araised = "none"
             /\ aret = NoResponse
             /\ stIter = maxIter
             /\ completions = maxIter

\* a run of two iterations, with a failed call among them, ended on the bound
C3_Witness ==
    /\ AlwaysToolCalls
    /\ maxIter = 2
    /\ completions = 2
    /\ aret = NoResponse
    /\ \E i \in 1..Len(history) :
          history[i].role = "tool" /\ history[i].content[1] = "Error: "

\* C4 as stated: at the end of any agent run the counter of the state is at
\* most max_iterations and equals the number of completion calls of the run.
C4_CounterEqualsCompletions ==
    (apc = "done" /\ nRuns > 0) => stIter <= maxIter /\ stIter = completions

\* C4, amended: at the end of a tool-loop run the counter of the state is at
\* most max_iterations and is the number of iterations the run started: the
\* number of its completion calls, and one more than that when the run ended
\* because its provider is not registered.
C4_CounterEqualsIterationsStarted ==
    (aKind \in ToolLoopKinds /\ apc = "done" /\ nRuns > 0) =>
       /\ stIter <= maxIter
       /\ stIter >= 1
       /\ araised # "provider_not_registered" => stIter = completions
       /\ araised = "provider_not_registered" => stIter = completions + 1

\* a second run of a tool-loop agent has ended after two completion calls
C4_Witness ==
    /\ aKind \in ToolLoopKinds
    /\ apc = "done"
    /\ nRuns = 2
    /\ stIter = 2
    /\ completions = 2
    /\ araised = "none"

\* the tool messages that directly follow place i of h
RECURSIVE AnswersAfter(_, _)
AnswersAfter(h, i) ==
    IF i < Len(h) /\ h[i + 1].role = "tool" /\ h[i + 1].tool_call_id # 0
    THEN <<h[i + 1].tool_call_id>> \o AnswersAfter(h, i + 1)
    ELSE <<>>

\* the ids of the calls of the request at place i of h, in order
RequestIds(h, i) == [k \in 1..Len(h[i].tool_calls) |-> h[i].tool_calls[k].id]

\* the request at place i of h is the one whose calls are being answered
InProgress(h, i) == apc = "tools" /\ i = Len(h) - (callIdx - 1)

\* C5: in a tool-loop agent the tool messages that directly follow an
\* assistant message with n tool calls answer its calls in order, i-th to
\* i-th, and are exactly n once the iteration is over; the tools are invoked
\* one at a time in the order of the calls; and the messages the next
\* completion is given hold all n tool messages.
C5_OneAnswerPerCallInOrder ==
    aKind \in ToolLoopKinds =>
       /\ \A i \in Requests(history) :
             IF InProgress(history, i)
             THEN /\ history[i].tool_calls = toolCalls
                  /\ AnswersAfter(history, i) = SubSeq(RequestIds(history, i), 1, callIdx - 1)
             ELSE AnswersAfter(history, i) = RequestIds(history, i)
       /\ apc = "loop" =>
             \A i \in Requests(messages) :
                AnswersAfter(messages, i) = RequestIds(messages, i)
       /\ apc \in {"tools", "loop"} =>
             /\ \A j \in 1..Len(invoked) :
                   \E k \in 1..Len(toolCalls) :
                      /\ toolCalls[k].id = invoked[j]
                      /\ k < (IF apc = "tools" THEN callIdx ELSE Len(toolCalls) + 1)
                      /\ j <= k
             /\ \A j, k \in 1..Len(invoked) : j < k => invoked[j] < invoked[k]

\* both calls of a response of two have been answered and both tools invoked
C5_Witness ==
    /\ aKind \in ToolLoopKinds
    /\ apc = "loop"
    /\ Len(toolCalls) = 2
    /\ Len(invoked) = 2
    /\ Len(history) >= 5
    /\ history[Len(history) - 2].tool_calls = toolCalls
    /\ AnswersAfter(history, Len(history) - 2) = <<toolCalls[1].id, toolCalls[2].id>>

\* C6 as stated: every tool message of the history carries the id of one of
\* the tool calls of the most recent assistant message before it.
C6_ToolMessageAnswersLastRequest ==
    \A i \in 1..Len(history) :
       history[i].role = "tool" =>
          \E j \in 1..(i - 1) :
             /\ history[j].role = "assistant"
             /\ \A m \in (j + 1)..(i - 1) : history[m].role # "assistant"
             /\ history[i].tool_call_id \in CallIds(history[j])

\* the step answers the tool call the for loop is at
AnswersCall == apc = "tools" /\ history' # history

\* the step leaves the for loop where the code does: at the next call, or
\* after the last one back at the while test, the run not ended
GoesOn ==
    /\ araised' = "none"
    /\ IF callIdx < Len(toolCalls)
       THEN apc' = "tools" /\ callIdx' = callIdx + 1 /\ toolCalls' = toolCalls
       ELSE apc' = "loop"

\* C7: a tool call that names a tool outside the active set is answered by a
\* tool message whose content is exactly "Error: Tool <name> not found"; no
\* tool is invoked for it; the run does not end on it, and a loop that is
\* back at its test within the budget starts the next iteration.
C7_UnknownToolAnswered ==
    [][/\ (AnswersCall /\ toolCalls[callIdx].name \notin tools) =>
             /\ history' = Append(history, history'[Len(history')])
             /\ history'[Len(history')].role = "tool"
             /\ history'[Len(history')].tool_call_id = toolCalls[callIdx].id
             /\ history'[Len(history')].content =
                   <<"Error: Tool ", toolCalls[callIdx].name, " not found">>
             /\ invoked' = invoked
             /\ GoesOn
       /\ (apc = "loop" /\ iterations < maxIter /\ apc' # "loop") =>
             stIter' = iterations + 1
      ]_vars

\* the last call of a response named an unknown tool, and the loop went on
\* to a second iteration
C7_Witness ==
    /\ aKind \in ToolLoopKinds
    /\ completions = 2
    /\ \E i \in 1..Len(history) :
          /\ history[i].role = "tool"
          /\ history[i].content = <<"Error: Tool ", "foo", " not found">>
          /\ i < Len(history)
          /\ history[i + 1].role = "assistant"

\* the call the for loop is at fails in the try block: its payload does not
\* parse or lacks a required parameter
FailsBeforeCall ==
    /\ toolCalls[callIdx].name \in tools
    /\ toolCalls[callIdx].arguments \in {PayloadBad, PayloadMissing}

\* C8: a call whose payload does not parse, whose required parameter is
\* missing or whose tool raises does not end the run: it is answered by a
\* tool message that carries its id and an error text, the calls after it
\* are processed, and the loop continues.
C8_FailureBecomesToolMessage ==
    [][(AnswersCall \/ (apc = "tools" /\ apc' = "done")) /\
       (FailsBeforeCall \/ lastOutcome' = "exec_error") =>
          /\ history' = Append(history, history'[Len(history')])
          /\ history'[Len(history')].role = "tool"
          /\ history'[Len(history')].tool_call_id = toolCalls[callIdx].id
          /\ history'[Len(history')].content[1] = "Error: "
          /\ GoesOn
      ]_vars

\* the first call of a response failed to parse and the second was answered
C8_Witness ==
    /\ apc = "loop"
    /\ Len(toolCalls) = 2
    /\ toolCalls[1].name \in tools
    /\ toolCalls[1].arguments = PayloadBad
    /\ Len(history) >= 5
    /\ history[Len(history) - 1].content[1] = "Error: "
    /\ history[Len(history) - 1].tool_call_id = toolCalls[1].id
    /\ history[Len(history)].tool_call_id = toolCalls[2].id

\* C9 as stated: once a run has started or a reset has completed, the
\* history holds exactly one system message and it is the first message.
C9_OneSystemMessageFirst ==
    (nRuns > 0 \/ nResets > 0) =>
       /\ history # <<>>
       /\ history[1].role = "system"
       /\ Cardinality({i \in 1..Len(history) : history[i].role = "system"}) = 1

\* h is a prefix of g
IsPrefix(h, g) == Len(h) <= Len(g) /\ SubSeq(g, 1, Len(h)) = h

\* C10: a step that is no reset leaves the history it found as a prefix of
\* the history it leaves, and a step that issues a completion call passes
\* the whole history as it stands.
C10_AppendOnlyFullHistory ==
    [][/\ nResets' = nResets => IsPrefix(history, history')
       /\ completions' > completions => messages = history
      ]_vars

\* a second iteration's completion was given a history with tool messages:
\* the run ended on its response
C10_Witness ==
    /\ aKind \in ToolLoopKinds
    /\ apc = "done"
    /\ completions = 2
    /\ toolCompletions = 1
    /\ araised = "none"
    /\ Len(history) >= 5
    /\ history[Len(history) - 1].role = "tool"

\* the roles a message may be tagged with
Roles == {"system", "user", "assistant", "tool"}

\* C11 as stated: every item run appends to the history for its input is a
\* role-tagged message; an input that is none is wrapped as a user message.
C11_InputsAreRoleTagged ==
    \A i \in 1..Len(history) : history[i].role \in Roles

\* the step is a completion of a tool-loop run that the provider answered
\* with a response without tool calls
AnsweredWithoutCalls ==
    /\ aKind \in ToolLoopKinds
    /\ completions' = completions + 1
    /\ toolCompletions' = toolCompletions
    /\ araised' = "none"

\* C12: a tool-loop run whose provider answers, within the budget, with a
\* response without tool calls appends that response as the last message,
\* returns exactly it and ends: while no new run starts nothing more is
\* appended, no completion is issued and no tool is invoked.
C12_FinalResponseEndsRun ==
    [][/\ AnsweredWithoutCalls =>
             /\ iterations < maxIter
             /\ Len(history') = Len(history) + 1
             /\ SubSeq(history', 1, Len(history)) = history
             /\ history'[Len(history')].role = "assistant"
             /\ history'[Len(history')].tool_calls = <<>>
             /\ aret' = <<"msg", history'[Len(history')]>>
             /\ apc' = "done"
             /\ invoked' = <<>>
       /\ (apc = "done" /\ nRuns' = nRuns) =>
             /\ completions' <= completions
             /\ invoked' = invoked
             /\ nResets' = nResets => history' = history
      ]_vars

\* a run ended on the response of its second iteration, after a tool call
C12_Witness ==
    /\ aKind \in ToolLoopKinds
    /\ apc = "done"
    /\ araised = "none"
    /\ completions = 2
    /\ toolCompletions = 1
    /\ aret = <<"msg", history[Len(history)]>>
    /\ history[Len(history)].tool_calls = <<>>
    /\ history[Len(history) - 1].role = "tool"

\* the roles of the items of a history, in order
RolesOf(h) == [i \in 1..Len(h) |-> h[i].role]

\* C13: once an agent that was reset has been run, the roles of its history
\* are, in order, those of the history of a freshly constructed agent of the
\* same definition given the same runs with the same responses and tool
\* results.
C13_ResetThenRunLikeFresh ==
    (nResets > 0 /\ freshHistory # <<>>) => RolesOf(history) = RolesOf(freshHistory)

\* an agent that ran, was reset and ran a tool loop again
C13_Witness ==
    /\ nResets > 0
    /\ nRuns = 2
    /\ apc = "done"
    /\ araised = "none"
    /\ Len(freshHistory) >= 4
    /\ \E i \in 1..Len(history) : history[i].role = "tool"

\* C14: a reset leaves a history that is exactly the system message of the
\* definition's prompt, and a counter of 0, whatever came before.
C14_ResetLeavesSystemMessageOnly ==
    [][nResets' # nResets =>
          /\ history' = <<[role |-> "system", content |-> <<"system prompt">>,
                           tool_call_id |-> 0, tool_calls |-> <<>>]>>
          /\ stIter' = 0
      ]_vars

\* a tool-loop agent was reset after a run of two iterations
C14_Witness ==
    /\ nResets = 1
    /\ nRuns >= 1
    /\ apc = "idle"
    /\ nextCallId >= 3
    /\ history = <<SystemMessage>>
    /\ stIter = 0

\* C15: the iteration budget is per run: every run of a tool-loop agent
\* starts counting at zero, none issues more than max_iterations completion
\* calls, and a run is ended by the bound only after it has itself issued
\* max_iterations of them, whatever earlier runs used.
C15_BudgetIsPerRun ==
    [][(aKind \in ToolLoopKinds) =>
          /\ completions' <= maxIter
          /\ (nRuns' > nRuns) => (iterations' = 0 /\ apc' = "loop")
          /\ (apc = "loop" /\ apc' = "done" /\ providerOk /\ completions' = completions) =>
                (completions = maxIter)
      ]_vars

\* a second run without reset used its whole budget after a first run that
\* had used its own
C15_Witness ==
    /\ aKind \in ToolLoopKinds
    /\ nRuns = 2
    /\ nResets = 0
    /\ apc = "done"
    /\ araised = "none"
    /\ completions = maxIter
    /\ toolCompletions = maxIter
    /\ Len(history) >= 6
    /\ history[3].role = "assistant"

\* C16: a run of a conversational agent issues one completion call and no
\* more, invokes no tool, and returns the response of that call, which is
\* the last message of the history, also when it carries tool calls.
C16_ConversationalOneCompletion ==
    aKind = "conversational" =>
       /\ completions <= 1
       /\ invoked = <<>>
       /\ apc # "tools"
       /\ (apc = "done" /\ nRuns > 0 /\ providerOk) => completions = 1
       /\ (apc = "done" /\ nRuns > 0 /\ araised = "none") =>
             /\ aret = <<"msg", history[Len(history)]>>
             /\ history[Len(history)].role = "assistant"

\* a conversational run returned a response that carries a tool call
C16_Witness ==
    /\ aKind = "conversational"
    /\ apc = "done"
    /\ araised = "none"
    /\ completions = 1
    /\ aret = <<"msg", history[Len(history)]>>
    /\ history[Len(history)].tool_calls # <<>>

\* C17: the function-calling agent and the ReAct agent have the same control
\* flow: every step a ReAct agent's run takes is the step FunctionCallingAgent's
\* code takes from the same state on the same input, response and tool
\* result, and every step of FunctionCallingAgent's code is the step
\* ReActAgent's code takes: the same completion calls, tool invocations,
\* history and result.
C17_FunctionCallingLikeReAct ==
    [][/\ (aKind = "react" /\ nResets' = nResets) => FCRunStep
       /\ FunctionCallingStep => ReActRunStep
      ]_vars

\* a function-calling run answered a failed call and an unknown tool and
\* then returned a response
C17_Witness ==
    /\ aKind = "function_calling"
    /\ apc = "done"
    /\ araised = "none"
    /\ completions = 2
    /\ Len(history) = 6
    /\ history[4].content[1] = "Error: "
    /\ history[5].content[1] = "Error: Tool "
    /\ aret = <<"msg", history[6]>>

\* C18: a planner's run never raises because of plan extraction: a run that
\* got its response ends without an extraction failure, and when the fenced
\* block of the response's content does not parse, the run returns the plan
\* "Generated plan" whose one step wraps the raw content and which carries
\* the text of the parse error.
C18_PlanExtractionNeverRaises ==
    (aKind = "planner" /\ apc = "done" /\ nRuns > 0) =>
       /\ araised \in {"none", "provider_error", "provider_not_registered"}
       /\ (/\ araised = "none"
           /\ history[Len(history)].content = <<FenceOpen, PayloadBad, FenceClose>>) =>
             aret = <<"plan", "Generated plan",
                      <<history[Len(history)].content>>,
                      <<"Expecting property name">>>>

\* a planner's run got a response whose fenced block does not parse
C18_Witness ==
    /\ aKind = "planner"
    /\ apc = "done"
    /\ araised = "none"
    /\ completions = 1
    /\ history[Len(history)].role = "assistant"
    /\ history[Len(history)].content = <<FenceOpen, PayloadBad, FenceClose>>
    /\ aret[1] = "plan"

\* C19: a call of a tool of the active set whose parsed payload lacks a
\* required parameter does not reach the tool's function and is answered by
\* a tool message that carries the validation failure; a call whose payload
\* holds every required parameter invokes the function.
C19_RequiredParametersChecked ==
    [][(apc = "tools" /\ toolCalls[callIdx].name \in tools) =>
          /\ (toolCalls[callIdx].arguments = PayloadMissing) =>
                /\ invoked' = invoked
                /\ history' = Append(history,
                      [role |-> "tool",
                       content |-> <<"Error: ", "Required parameter ", "x", " missing">>,
                       tool_call_id |-> toolCalls[callIdx].id,
                       tool_calls |-> <<>>])
          /\ (toolCalls[callIdx].arguments = PayloadOk) =>
                invoked' = Append(invoked, toolCalls[callIdx].id)]_vars

\* a call without its required parameter was answered and no function ran
C19_Witness ==
    /\ lastOutcome = "validation_error"
    /\ invoked = <<>>
    /\ history # <<>>
    /\ history[Len(history)].role = "tool"
    /\ history[Len(history)].content = <<"Error: ", "Required parameter ", "x", " missing">>

\* C20: a run that resolves its tool set from the definition's allowed tools
\* and meets there a name the registry does not hold is aborted at that
\* point: no run is ever under way, in its loop or answering tool calls,
\* after it looked up an unregistered name.
C20_UnregisteredToolAbortsRun ==
    (apc \in {"loop", "tools"}) => (lookedUp \subseteq Registry)

\* an execute has ended and none of its agents raised
ExecuteEnded == dpc \in {"returned", "raised"} /\ derr # "agent_raised"

\* the state machine and the function of the scan order agree on the order
\* the workflow has
OutcomeMatchesExecute ==
    ExecuteEnded =>
       ExecuteOutcome(wfOrder) =
          (IF dpc = "returned" THEN <<"returned", dret>> ELSE <<"raised", derr>>)

\* the outcome as the claim reads it: the value returned, or that it failed
Observed(outcome) == IF outcome[1] = "returned" THEN outcome ELSE <<"failed">>

\* C25: with the dependency lists, entry point, final node, max_steps and
\* a fixed stub for every node, an execute that ended has the outcome (the
\* value returned, or the failure) that the execute has under every other
\* order of scanning the node map.
C25_OutcomeIndependentOfScanOrder ==
    (ExecuteEnded /\ Range(wfOrder) \subseteq agentIds) =>
       \A o \in ScanOrders :
          Observed(ExecuteOutcome(o)) =
             Observed(IF dpc = "returned" THEN <<"returned", dret>> ELSE <<"raised", derr>>)

\* C26: an execute that has used up its max_steps rounds (one at least) while
\* a node of the node map is still unprocessed ends with an error and
\* returns no value.
C26_BudgetExhaustedIsFatal ==
    (/\ dpc \in {"returned", "raised"}
     /\ maxSteps > 0
     /\ steps = maxSteps
     /\ Cardinality(processed) < Len(wfOrder)) =>
       (dpc = "raised" /\ dret = None)

\* the nodes a node depends on through at most k dependency lists
RECURSIVE DependsOnWithin(_, _)
DependsOnWithin(n, k) ==
    IF k = 0 THEN {}
    ELSE Range(wfDeps[n]) \cup
         UNION {DependsOnWithin(m, k - 1) : m \in Range(wfDeps[n])}

\* the dependency graph of the node map has a cycle
HasCycle == \E n \in Range(wfOrder) : n \in DependsOnWithin(n, Cardinality(Ids))

\* C27: the execute of a workflow whose dependency graph has a cycle, given
\* one round or more, never returns a value: it ends with an error, after
\* max_steps rounds.
C27_CycleNeverReturns ==
    (HasCycle /\ maxSteps > 0) =>
       /\ dpc # "returned"
       /\ dret = None
       /\ (dpc = "raised" /\ derr \in {"no_final_node", "final_not_processed"}) =>
             steps = maxSteps

\* C28: the execute of a workflow that lacks a non-empty node map, an entry
\* point or a final node runs no node's agent, returns nothing, and when it
\* ends it ends with the error about the missing part.
C28_MalformedWorkflowFailsFirst ==
    (wfOrder = <<>> \/ entryPoint = NoNode \/ finalNode = NoNode) =>
       /\ \A n \in Ids : ran[n] = 0
       /\ dpc # "returned"
       /\ dpc = "raised" => derr \in {"no_dag", "no_entry_point", "no_final_node"}

\* C29: once the scan rounds have ended, execute returns results[finalNode]
\* when the final node is a key of results and raises, returning nothing,
\* when it is not; and execute returns at no other point.
C29_FinalNodeDecidesResult ==
    [][/\ (dpc = "final") =>
             (IF finalNode \in DOMAIN results
              THEN dpc' = "returned" /\ dret' = results[finalNode]
              ELSE /\ dpc' = "raised"
                   /\ dret' = None
                   /\ derr' \in {"no_final_node", "final_not_processed"})
       /\ (dpc' = "returned") => (dpc = "final" /\ finalNode \in DOMAIN results)]_vars

\* an execute has returned the output of its final node, which is not the
\* entry point
C29_Witness ==
    /\ dpc = "returned"
    /\ finalNode # entryPoint
    /\ finalNode \in processed
    /\ ran[finalNode] = 1
    /\ dret = results[finalNode]

\* what a producer ref selects from a node's output
Selected(ref, out) ==
    IF HasDot(ref) /\ IsDict(out) /\ HasKey(out, SplitKey(ref))
    THEN GetKey(out, SplitKey(ref))
    ELSE out

\* C30: a node that maps the key x to a ref of node A is run on the formatted
\* dict whose x is the field the ref names of A's output when that output is
\* a dict with the field, and A's whole output otherwise (also for a bare
\* ref); with A's output {value: 7} and the mapping x: "A.value", the node is
\* run on the formatted {x: 7}.
C30_MappedFieldReachesAgent ==
    \A n \in Ids \ {"A"} : \A ref \in {<<"A", ".", "value">>, <<"A", ".", "other">>, <<"A">>} :
       (/\ ran[n] > 0
        /\ entryPoint = "A"
        /\ wfMap[n] = <<<<"x", ref>>>>
        /\ "A" \in Range(wfDeps[n])) =>
          /\ ranInput[n] = FormatInput(DictV(<<<<"x", Selected(ref, StubResult("A", None))>>>>))
          /\ (ref = <<"A", ".", "value">> /\ outVals = {ValueDict}) =>
                ranInput[n] = MsgV("user", StrOf(DictV(<<<<"x", Seven>>>>)))

\* the same, for node maps that list A before the node
MappedFieldWhenScannedAfter ==
    wfOrder = <<"A", "B">> => C30_MappedFieldReachesAgent

\* C31: in a workflow without a cycle whose dependencies are nodes of the
\* node map, a node without an input mapping is run on the formatted output
\* of the agent of its first declared dependency, or on the formatted
\* workflow input when it declares no dependency.
C31_UnmappedNodeGetsFirstDependency ==
    \A n \in Ids :
       (/\ ran[n] > 0
        /\ wfMap[n] = <<>>
        /\ ~HasCycle
        /\ Range(wfDeps[n]) \subseteq Range(wfOrder)) =>
          ranInput[n] =
             FormatInput(IF wfDeps[n] = <<>> THEN inputData
                         ELSE StubResult(wfDeps[n][1], None))

\* the same, read on results: the node is run on the formatted value that
\* results holds for its first dependency at that time
UnmappedNodeGetsResultsEntry ==
    [][\A n \in Ids :
          (ran'[n] > ran[n] /\ wfMap[n] = <<>>) =>
             ranInput'[n] =
                FormatInput(IF wfDeps[n] = <<>> THEN inputData
                            ELSE results[wfDeps[n][1]])]_vars

\* a node of the node map that is unprocessed and has all its dependencies
\* in results, while the rounds are under way or just over
Eligible(n) ==
    /\ dpc \in {"while", "for", "final"}
    /\ n \in Range(wfOrder)
    /\ n \notin processed
    /\ \A i \in 1..Len(wfDeps[n]) : wfDeps[n][i] \in DOMAIN results

\* C32 as stated: from the moment a node without an agent is eligible, no
\* agent is run and no value is returned.
C32_EligibleWithoutAgentAborts ==
    [][(\E n \in Ids : Eligible(n) /\ n \notin agentIds) =>
          (ran' = ran /\ dpc' # "returned")]_vars

\* C32: when the scan reaches an eligible node whose id has no agent, execute
\* raises the agent-not-found error there: that step runs no agent and
\* returns nothing, and no step follows it.
C32_ScannedNodeWithoutAgentAborts ==
    [][/\ (/\ dpc = "for"
           /\ scan <= Len(wfOrder)
           /\ Eligible(wfOrder[scan])
           /\ wfOrder[scan] \notin agentIds) =>
             /\ dpc' = "raised"
             /\ derr' = "agent_not_found"
             /\ ran' = ran
             /\ results' = results
             /\ dret' = None
       /\ (dpc = "raised") => FALSE]_vars

\* an execute has raised at a node without an agent after it had run another
\* node's agent
C32_Witness ==
    /\ dpc = "raised"
    /\ derr = "agent_not_found"
    /\ scan \in 1..Len(wfOrder)
    /\ wfOrder[scan] \notin agentIds
    /\ \E n \in Ids : ran[n] > 0
    /\ dret = None

\* C33: a step that runs a node's agent leaves the results entries of all
\* other nodes and the step counter as they were: it writes at most the
\* node's own entry of results and adds at most that node to processed (both,
\* when the agent returns; neither, when it raises).
C33_RunWritesOwnEntryOnly ==
    [][\A n \in Ids :
          (ran'[n] > ran[n]) =>
             /\ DOMAIN results' \subseteq DOMAIN results \cup {n}
             /\ \A m \in DOMAIN results \ {n} :
                   m \in DOMAIN results' /\ results'[m] = results[m]
             /\ steps' = steps
             /\ IF dpc' = "raised"
                THEN processed' = processed /\ results' = results
                ELSE processed' = processed \cup {n} /\ n \in DOMAIN results']_vars

\* two nodes have been run and both their results are held
C33_Witness ==
    \E n, m \in Ids :
       /\ n # m
       /\ ran[n] = 1
       /\ ran[m] = 1
       /\ {n, m} \subseteq processed
       /\ {n, m} \subseteq DOMAIN results

\* C35: an execute that had one round or more and returned a value has run
\* the final node's agent, and the value is that agent's output, not the
\* workflow input that results was seeded with.
C35_ReturnedValueIsFinalAgentsOutput ==
    (dpc = "returned" /\ maxSteps > 0) =>
       /\ ran[finalNode] > 0
       /\ dret \in outVals
       /\ dret # FormatInput(inputData)

\* when the final node is not the entry point, a returned value is the output
\* of the final node's agent
ReturnedValueOfOtherFinalNode ==
    (dpc = "returned" /\ finalNode # entryPoint) =>
       (ran[finalNode] > 0 /\ dret \in outVals)

\* C36: from the point where results exists, its key set is the set of
\* processed nodes plus the entry point; so a node other than the entry
\* point is a key of results only after its agent has run.
C36_ResultsKeysAreProcessedPlusEntry ==
    (dpc # "start" /\ derr \notin {"no_dag", "no_entry_point"}) =>
       /\ DOMAIN results = processed \cup {entryPoint}
       /\ \A n \in DOMAIN results \ {entryPoint} : ran[n] > 0

\* a round is under way in which a node other than the entry point has been
\* processed while the entry point has not
C36_Witness ==
    /\ dpc = "for"
    /\ processed # {}
    /\ entryPoint \notin processed
    /\ DOMAIN results = processed \cup {entryPoint}
    /\ \A n \in processed : ran[n] = 1

\* the largest number of a non-empty set of numbers
Largest(S) == CHOOSE x \in S : \A y \in S : y <= x

\* the number of nodes on the longest dependency chain that ends at a node,
\* in a node map without a cycle
RECURSIVE ChainLength(_)
ChainLength(n) ==
    1 + Largest({0} \cup {ChainLength(d) : d \in Range(wfDeps[n]) \cap Range(wfOrder)})

LongestChain == Largest({ChainLength(n) : n \in Range(wfOrder)})

\* a node map without a cycle in which every node has an agent and every
\* dependency is a node of the map or the entry point, with a step budget of
\* the longest chain at least
EnoughSteps ==
    /\ wfOrder # <<>>
    /\ entryPoint # NoNode
    /\ ~HasCycle
    /\ Range(wfOrder) \subseteq agentIds
    /\ \A n \in Range(wfOrder) : Range(wfDeps[n]) \subseteq Range(wfOrder) \cup {entryPoint}
    /\ maxSteps >= LongestChain

\* every node is processed and a value is returned, or an agent raised
AllProcessedAndReturned ==
    \/ dpc = "returned" /\ processed = Range(wfOrder)
    \/ dpc = "raised" /\ derr = "agent_raised"

ExecuteOver == dpc \in {"returned", "raised"}

\* the resources of an execute: the rounds begun are within the budget, an
\* agent is run for nodes of the node map only, and once per node at most
WithinBudget ==
    /\ steps <= maxSteps
    /\ \A n \in Ids : ran[n] <= 1
    /\ \A n \in Ids : ran[n] > 0 => n \in Range(wfOrder)

\* C38: with agent runs that terminate, a DAG execute terminates; all along
\* it has begun at most max_steps rounds (the step counter never exceeds
\* max_steps) and has run at most one agent per node of the node map.
C38_ExecuteTerminatesWithinBudget == []WithinBudget /\ <>ExecuteOver

\* an execute that is over after using its whole budget of two rounds or
\* more, with some nodes run once and some node left unprocessed
C38_Witness ==
    /\ ExecuteOver
    /\ maxSteps >= 2
    /\ steps = maxSteps
    /\ processed # {}
    /\ processed # Range(wfOrder)
    /\ \A n \in processed : ran[n] = 1

\* ------------------------------------------------------------------------
\* The sequential pipeline's properties
\* ------------------------------------------------------------------------

\* C21: a sequential execute runs the agents of its list in list order, each
\* entry of the list once; agent k+1 is handed the output of agent k, and the
\* value returned is the output of the last agent.  With stubs that append
\* their name, the input "start" over A, B, C gives "start|A|B|C".
C21_SequentialRunsInOrder ==
    LET list == AgentSequence(seqWorkflow) IN
    /\ Len(seqLog) <= Len(list)
    /\ \A k \in 1..Len(seqLog) : seqLog[k][1] = list[k]
    /\ \A k \in 1..(Len(seqLog) - 1) : seqLog[k + 1][2] = seqLog[k][3]
    /\ spc = "returned" =>
          /\ Len(seqLog) = Len(list)
          /\ sret = seqLog[Len(list)][3]
          /\ (/\ list = <<"A", "B", "C">>
              /\ seqKind = [n \in Ids |-> "append"]
              /\ seqInput = StrV(<<"start">>)) =>
                sret = StrV(<<"start", "|", "A", "|", "B", "|", "C">>)

\* the pipeline A, B, C of appending stubs has returned on the input "start"
C21_Witness ==
    /\ spc = "returned"
    /\ seqWorkflow = <<"seq", <<"A", "B", "C">>>>
    /\ seqKind = [n \in Ids |-> "append"]
    /\ seqInput = StrV(<<"start">>)
    /\ Len(seqLog) = 3

\* C22: in a sequential execute the first agent is handed the formatted
\* workflow input, every later agent is handed the formatted output of the
\* agent before it (the output itself when it is a message, else a user
\* message of its text), and the value returned is the last agent's output
\* as it is.
C22_LaterAgentsGetFormattedOutput ==
    /\ seqLog # <<>> => seqLog[1][2] = FormatInput(seqInput)
    /\ \A k \in 1..(Len(seqLog) - 1) : seqLog[k + 1][2] = FormatInput(seqLog[k][3])
    /\ spc = "returned" => sret = seqLog[Len(seqLog)][3]

\* C23: a sequential execute whose workflow has no sequence, or an empty
\* one, ends with the error about the missing sequence, runs no agent and
\* returns nothing.
C23_EmptySequenceFailsFirst ==
    (seqWorkflow \in {NoSequence, <<"seq", <<>>>>} /\ spc # "start") =>
       /\ spc = "raised"
       /\ serr = "no_sequence"
       /\ seqLog = <<>>
       /\ sret = None

\* an execute of a workflow without the key "sequence" has raised
C23_Witness ==
    /\ seqWorkflow = NoSequence
    /\ seqAgents = Ids
    /\ spc = "raised"
    /\ serr = "no_sequence"
    /\ seqLog = <<>>

\* the positions of the list whose id has no agent
Unresolved == {k \in 1..Len(AgentSequence(seqWorkflow)) :
                 AgentSequence(seqWorkflow)[k] \notin seqAgents}

\* the first of them
FirstUnresolved == CHOOSE k \in Unresolved : \A j \in Unresolved : k <= j

\* C24: a sequential execute whose list holds an id without an agent raises
\* the agent-not-found error when the loop reaches the first such id: no
\* agent at or after that position is run, and nothing is returned.
C24_UnresolvedAgentStopsPipeline ==
    Unresolved # {} =>
       /\ Len(seqLog) < FirstUnresolved
       /\ seqPos <= FirstUnresolved
       /\ spc # "returned"
       /\ sret = None
       /\ (spc = "raised" /\ serr = "agent_not_found") =>
             (seqPos = FirstUnresolved /\ Len(seqLog) = FirstUnresolved - 1)
       /\ (spc = "raised" /\ Len(seqLog) = FirstUnresolved - 1
             /\ (seqLog = <<>> \/ seqLog[Len(seqLog)][3] # None)) =>
             serr = "agent_not_found"

\* the pipeline A, C, B over an orchestrator without C has raised at C,
\* after A was run
C24_Witness ==
    /\ seqWorkflow = <<"seq", <<"A", "C", "B">>>>
    /\ seqAgents = {"A", "B"}
    /\ spc = "raised"
    /\ serr = "agent_not_found"
    /\ Len(seqLog) = 1
    /\ seqLog[1][1] = "A"

\* ------------------------------------------------------------------------
\* The agent's tool set
\* ------------------------------------------------------------------------

\* C34: while a run of a tool-loop agent that was passed a tools argument
\* (an empty one too) is under way, its active tool set is that argument and
\* no name of the definition was looked up; without the argument the active
\* set is the registered part of the definition's tools.  A call is resolved
\* against the active set alone: a name outside it is answered "not found"
\* and nothing is invoked, also when the definition allows the name.
C34_OverrideIsTheActiveSet ==
    [][/\ (apc' \in {"loop", "tools"}) =>
             (IF toolsArg' = NoOverride
              THEN tools' = cfgTools \cap Registry /\ lookedUp' = cfgTools
              ELSE tools' = toolsArg'[2] /\ lookedUp' = {})
       /\ (apc = "tools" /\ history' # history) =>
             LET call == toolCalls[callIdx]
                 active == IF toolsArg = NoOverride THEN cfgTools \cap Registry
                           ELSE toolsArg[2]
             IN /\ (call.name \notin active) =>
                      /\ invoked' = invoked
                      /\ history'[Len(history')].content =
                            <<"Error: Tool ", call.name, " not found">>
                /\ (call.name \in active /\ call.arguments = PayloadOk) =>
                      invoked' = Append(invoked, call.id)]_vars

\* a run that was passed an empty tool set answered a call of calc, a tool
\* the definition allows and the registry holds, with "not found"
C34_Witness ==
    /\ toolsArg = <<"tools", {}>>
    /\ "calc" \in cfgTools \cap Registry
    /\ apc \in {"loop", "tools"}
    /\ tools = {}
    /\ lastOutcome = "not_found"
    /\ history[Len(history)].content = <<"Error: Tool ", "calc", " not found">>

\* ------------------------------------------------------------------------
\* The one-shot agents' state
\* ------------------------------------------------------------------------

\* C39: no step of a conversational or planner agent, from the start of a
\* run to its return or raise, changes the iteration counter of the agent's
\* state; the one-shot run never increments it.
C39_OneShotRunKeepsIterations ==
    [][(aKind \in OneShotKinds) => stIter' = stIter]_vars

\* a one-shot agent has returned from its second run, each a completion, and
\* the counter of its state is what construction gave it
C39_Witness ==
    /\ aKind \in OneShotKinds
    /\ apc = "done"
    /\ nRuns = 2
    /\ completions = 1
    /\ aret # NoResponse
    /\ araised = "none"
    /\ stIter = 0

====
